---- MODULE Spec2Model ----
(***************************************************************************)
(* A model of the Telegram key-phrase bot: configuration loading           *)
(* (config.py), the message handlers (bot_handlers.py) and the start-up    *)
(* sequence (main.py).                                                     *)
(*                                                                         *)
(* A Python str is a sequence of one-character strings.  An Optional       *)
(* value is the empty sequence (None, or an unset environment variable)    *)
(* or a one-element sequence holding the value.  TLA+ strings are ASCII,  *)
(* so the Cyrillic literals of config.py are written in Latin              *)
(* transliteration; no operation depends on their letters.                 *)
(***************************************************************************)
EXTENDS Integers, Sequences, FiniteSets

VARIABLES env, config, pc, app, update, out, log, calls, raised, exitCode

vars == <<env, config, pc, app, update, out, log, calls, raised, exitCode>>

None == <<>>

Some(v) == <<v>>

----------------------------------------------------------------------------
(* Bounds of the model.                                                    *)

\* longest message text delivered to handle_message
MaxLen == 3

\* longest raw OTHER_RESPONSES value drawn for the parsing rule
MaxRawLen == 4

----------------------------------------------------------------------------
(* Python str operations.                                                  *)

UpperLetters ==
  <<"A", "B", "C", "D", "E", "F", "G", "H", "I", "J", "K", "L", "M", "N", "O", "P", "Q", "R", "S", "T", "U", "V", "W", "X", "Y", "Z">>

LowerLetters ==
  <<"a", "b", "c", "d", "e", "f", "g", "h", "i", "j", "k", "l", "m", "n", "o", "p", "q", "r", "s", "t", "u", "v", "w", "x", "y", "z">>

\* the whitespace characters of the model's alphabets (str.strip, json)
Whitespace == {" ", "\n"}

LowerChar(c) ==
  IF \E i \in 1..Len(UpperLetters) : UpperLetters[i] = c
  THEN LowerLetters[CHOOSE i \in 1..Len(UpperLetters) : UpperLetters[i] = c]
  ELSE c

\* str.lower()
Lower(s) == [i \in 1..Len(s) |-> LowerChar(s[i])]

RECURSIVE LStrip(_)
LStrip(s) ==
  IF s # <<>> /\ Head(s) \in Whitespace THEN LStrip(Tail(s)) ELSE s

RECURSIVE RStrip(_)
RStrip(s) ==
  IF s # <<>> /\ s[Len(s)] \in Whitespace
  THEN RStrip(SubSeq(s, 1, Len(s) - 1))
  ELSE s

\* str.strip()
Strip(s) == RStrip(LStrip(s))

\* sub in s
Contains(sub, s) ==
  \E i \in 0..(Len(s) - Len(sub)) : SubSeq(s, i + 1, i + Len(sub)) = sub

\* c in s, for a single character c
HasChar(c, s) == \E i \in 1..Len(s) : s[i] = c

\* s.split(d), for a single character d
RECURSIVE Split(_, _)
Split(s, d) ==
  IF ~HasChar(d, s) THEN <<s>>
  ELSE LET i == CHOOSE k \in 1..Len(s) :
                  s[k] = d /\ \A j \in 1..(k - 1) : s[j] # d
       IN  <<SubSeq(s, 1, i - 1)>> \o Split(SubSeq(s, i + 1, Len(s)), d)

\* [r.strip() for r in parts if r.strip()]
RECURSIVE StripNonEmpty(_)
StripNonEmpty(parts) ==
  IF parts = <<>> THEN <<>>
  ELSE (IF Strip(Head(parts)) # <<>> THEN <<Strip(Head(parts))>> ELSE <<>>)
       \o StripNonEmpty(Tail(parts))

\* all strings over alphabet A of length at most n
RECURSIVE StringsUpTo(_, _)
StringsUpTo(A, n) ==
  IF n = 0 THEN {<<>>}
  ELSE LET shorter == StringsUpTo(A, n - 1)
       IN  shorter \cup {Append(s, c) : s \in shorter, c \in A}

----------------------------------------------------------------------------
(* Literals of config.py and bot_handlers.py.                              *)

\* 'QR kod'
DefaultKeyPhrase ==
  <<"Q", "R", " ", "k", "o", "d">>

\* 'Eto to, o chem ya govoril! Ura! Ty proshel moy MEGA kvest! Pozdravlyayu! Teper' ty mozhesh' poluchit' svoy priz!'
DefaultKeyResponse ==
  <<"E", "t", "o", " ", "t", "o", ",", " ", "o", " ", "c", "h", "e", "m",
     " ", "y", "a", " ", "g", "o", "v", "o", "r", "i", "l", "!", " ", "U",
     "r", "a", "!", " ", "T", "y", " ", "p", "r", "o", "s", "h", "e", "l",
     " ", "m", "o", "y", " ", "M", "E", "G", "A", " ", "k", "v", "e", "s",
     "t", "!", " ", "P", "o", "z", "d", "r", "a", "v", "l", "y", "a", "y",
     "u", "!", " ", "T", "e", "p", "e", "r", "'", " ", "t", "y", " ", "m",
     "o", "z", "h", "e", "s", "h", "'", " ", "p", "o", "l", "u", "c", "h",
     "i", "t", "'", " ", "s", "v", "o", "y", " ", "p", "r", "i", "z", "!">>

\* 'secret'
FallbackKeyPhrase ==
  <<"s", "e", "c", "r", "e", "t">>

\* 'This is the prepared response for the key phrase!'
FallbackKeyResponse ==
  <<"T", "h", "i", "s", " ", "i", "s", " ", "t", "h", "e", " ", "p", "r",
     "e", "p", "a", "r", "e", "d", " ", "r", "e", "s", "p", "o", "n", "s",
     "e", " ", "f", "o", "r", " ", "t", "h", "e", " ", "k", "e", "y", " ",
     "p", "h", "r", "a", "s", "e", "!">>

\* 'Ty tochno popal tuda, kuda nado?'
Ru1 ==
  <<"T", "y", " ", "t", "o", "c", "h", "n", "o", " ", "p", "o", "p", "a",
     "l", " ", "t", "u", "d", "a", ",", " ", "k", "u", "d", "a", " ", "n",
     "a", "d", "o", "?">>

\* 'Chto?'
Ru2 ==
  <<"C", "h", "t", "o", "?">>

\* 'Podumay eshche.'
Ru3 ==
  <<"P", "o", "d", "u", "m", "a", "y", " ", "e", "s", "h", "c", "h", "e",
     ".">>

\* 'Ne pravil'no!'
Ru4 ==
  <<"N", "e", " ", "p", "r", "a", "v", "i", "l", "'", "n", "o", "!">>

\* 'Ty ne ugadal!'
Ru5 ==
  <<"T", "y", " ", "n", "e", " ", "u", "g", "a", "d", "a", "l", "!">>

\* 'Hello! How can I help you today?'
En1 ==
  <<"H", "e", "l", "l", "o", "!", " ", "H", "o", "w", " ", "c", "a", "n",
     " ", "I", " ", "h", "e", "l", "p", " ", "y", "o", "u", " ", "t", "o",
     "d", "a", "y", "?">>

\* 'Thanks for your message!'
En2 ==
  <<"T", "h", "a", "n", "k", "s", " ", "f", "o", "r", " ", "y", "o", "u",
     "r", " ", "m", "e", "s", "s", "a", "g", "e", "!">>

\* 'I'm here if you need anything else.'
En3 ==
  <<"I", "'", "m", " ", "h", "e", "r", "e", " ", "i", "f", " ", "y", "o",
     "u", " ", "n", "e", "e", "d", " ", "a", "n", "y", "t", "h", "i", "n",
     "g", " ", "e", "l", "s", "e", ".">>

\* 'Have a great day!'
En4 ==
  <<"H", "a", "v", "e", " ", "a", " ", "g", "r", "e", "a", "t", " ", "d",
     "a", "y", "!">>

\* 'Thanks for reaching out!'
En5 ==
  <<"T", "h", "a", "n", "k", "s", " ", "f", "o", "r", " ", "r", "e", "a",
     "c", "h", "i", "n", "g", " ", "o", "u", "t", "!">>

\* 'Sorry, I couldn't process your message.'
ApologyText ==
  <<"S", "o", "r", "r", "y", ",", " ", "I", " ", "c", "o", "u", "l", "d",
     "n", "'", "t", " ", "p", "r", "o", "c", "e", "s", "s", " ", "y", "o",
     "u", "r", " ", "m", "e", "s", "s", "a", "g", "e", ".">>

\* 'false'
StrFalse ==
  <<"f", "a", "l", "s", "e">>

\* 'true'
StrTrue ==
  <<"t", "r", "u", "e">>

----------------------------------------------------------------------------
(* json.loads, for the strings and arrays the model's alphabet can spell.  *)
(* A scan result is [ok, end, isList, allStr, items]: end is the index of  *)
(* the first character after the value; for a string, items holds it; for  *)
(* a list, allStr says that every element is a string and items holds     *)
(* the elements when it is.                                                *)

JsonFail ==
  [ok |-> FALSE, end |-> 0, isList |-> FALSE, allStr |-> FALSE, items |-> <<>>]

\* s[i:i+1]
At(s, i) == IF i >= 1 /\ i <= Len(s) THEN s[i] ELSE ""

\* WHITESPACE.match(s, i).end()
RECURSIVE SkipWs(_, _)
SkipWs(s, i) ==
  IF i <= Len(s) /\ s[i] \in Whitespace THEN SkipWs(s, i + 1) ELSE i

\* py_scanstring, strict: s[i] is the opening quote
ScanString(s, i) ==
  IF \E j \in (i + 1)..Len(s) : s[j] = "\""
  THEN LET j == CHOOSE k \in (i + 1)..Len(s) :
                  s[k] = "\"" /\ \A m \in (i + 1)..(k - 1) : s[m] # "\""
           body == SubSeq(s, i + 1, j - 1)
       IN  IF HasChar("\n", body) THEN JsonFail
           ELSE [ok |-> TRUE, end |-> j + 1, isList |-> FALSE,
                 allStr |-> FALSE, items |-> <<body>>]
  ELSE JsonFail

RECURSIVE ScanOnce(_, _)
RECURSIVE ScanElems(_, _, _, _)

\* JSONArray: i is the index after the opening bracket
ScanArray(s, i) ==
  LET j == SkipWs(s, i)
  IN  IF At(s, j) = "]"
      THEN [ok |-> TRUE, end |-> j + 1, isList |-> TRUE, allStr |-> TRUE,
            items |-> <<>>]
      ELSE ScanElems(s, j, <<>>, TRUE)

\* the loop of JSONArray: one value, then "]" or "," and the next value
ScanElems(s, i, items, allStr) ==
  LET v == ScanOnce(s, i)
      isStr == v.ok /\ ~v.isList
      items2 == IF allStr /\ isStr THEN items \o v.items ELSE <<>>
      j == SkipWs(s, v.end)
  IN  IF ~v.ok THEN JsonFail
      ELSE IF At(s, j) = "]"
      THEN [ok |-> TRUE, end |-> j + 1, isList |-> TRUE,
            allStr |-> allStr /\ isStr, items |-> items2]
      ELSE IF At(s, j) # "," THEN JsonFail
      ELSE ScanElems(s, SkipWs(s, j + 1), items2, allStr /\ isStr)

\* scan_once: a string, an array, or no value
ScanOnce(s, i) ==
  IF At(s, i) = "\"" THEN ScanString(s, i)
  ELSE IF At(s, i) = "[" THEN ScanArray(s, i + 1)
  ELSE JsonFail

\* json.loads(s): JsonFail stands for JSONDecodeError
JsonLoads(s) ==
  LET v == ScanOnce(s, SkipWs(s, 1))
  IN  IF v.ok /\ SkipWs(s, v.end) = Len(s) + 1 THEN v ELSE JsonFail

----------------------------------------------------------------------------
(* Config (config.py).                                                     *)

\* os.getenv(name, default)
Getenv(v, default) == IF v = None THEN default ELSE v[1]

\* the defaults returned for an unset or empty OTHER_RESPONSES
InitialResponses == <<Ru1, Ru2, Ru3, Ru4, Ru5>>

_get_default_responses == <<En1, En2, En3, En4, En5>>

_parse_other_responses(responses_str) ==
  IF responses_str = <<>> THEN InitialResponses
  ELSE LET j == JsonLoads(responses_str)
           byComma == StripNonEmpty(Split(responses_str, ","))
           byLine == StripNonEmpty(Split(responses_str, "\n"))
       IN  IF j.ok /\ j.isList /\ j.allStr THEN j.items
           ELSE IF HasChar(",", responses_str) /\ byComma # <<>> THEN byComma
           ELSE IF HasChar("\n", responses_str) /\ byLine # <<>> THEN byLine
           ELSE IF Strip(responses_str) # <<>> THEN <<Strip(responses_str)>>
           ELSE _get_default_responses

Digits == <<"0", "1", "2", "3", "4", "5", "6", "7", "8", "9">>

IsDigit(c) == \E i \in 1..Len(Digits) : Digits[i] = c

DigitValue(c) == (CHOOSE i \in 1..Len(Digits) : Digits[i] = c) - 1

RECURSIVE DecimalValue(_)
DecimalValue(s) ==
  IF s = <<>> THEN 0
  ELSE 10 * DecimalValue(SubSeq(s, 1, Len(s) - 1)) + DigitValue(s[Len(s)])

\* int(s): Some(n), or None for ValueError
IntOf(s) ==
  LET t == Strip(s)
      signed == t # <<>> /\ Head(t) \in {"-", "+"}
      d == IF signed THEN Tail(t) ELSE t
  IN  IF d # <<>> /\ \A i \in 1..Len(d) : IsDigit(d[i])
      THEN Some(IF signed /\ Head(t) = "-" THEN 0 - DecimalValue(d)
                ELSE DecimalValue(d))
      ELSE None

\* the OWNER_ID block of Config.__init__
OwnerIdOf(owner_id_str) ==
  IF owner_id_str # <<>> THEN IntOf(owner_id_str) ELSE None

\* a variant of _validate_config that leaves an empty pool as it is
ValidateConfigKeepsEmptyPool(c) ==
  [c EXCEPT
     !.KEY_PHRASE = IF @ = <<>> THEN FallbackKeyPhrase ELSE @,
     !.KEY_RESPONSE = IF @ = <<>> THEN FallbackKeyResponse ELSE @]

_validate_config(c) ==
  [c EXCEPT
     !.KEY_PHRASE = IF @ = <<>> THEN FallbackKeyPhrase ELSE @,
     !.KEY_RESPONSE = IF @ = <<>> THEN FallbackKeyResponse ELSE @,
     !.OTHER_RESPONSES = IF @ = <<>> THEN _get_default_responses ELSE @]

\* Config.__init__ on the environment e
Config(e) ==
  _validate_config(
    [BOT_TOKEN |-> Getenv(e.BOT_TOKEN, <<>>),
     OWNER_ID |-> OwnerIdOf(Getenv(e.OWNER_ID, <<>>)),
     KEY_PHRASE |-> Getenv(e.KEY_PHRASE, DefaultKeyPhrase),
     KEY_RESPONSE |-> Getenv(e.KEY_RESPONSE, DefaultKeyResponse),
     OTHER_RESPONSES |->
       _parse_other_responses(Getenv(e.OTHER_RESPONSES, <<>>)),
     CASE_SENSITIVE |-> Lower(Getenv(e.CASE_SENSITIVE, StrFalse)) = StrTrue])

get_effective_key_phrase(c) ==
  IF c.CASE_SENSITIVE THEN c.KEY_PHRASE ELSE Lower(c.KEY_PHRASE)

normalize_text(c, text) == IF c.CASE_SENSITIVE THEN text ELSE Lower(text)

\* the truth value of an Optional[int]: None and 0 are false
Truthy(opt) == opt # None /\ opt[1] # 0

----------------------------------------------------------------------------
(* BotHandlers (bot_handlers.py).  A handler's result is                   *)
(* [out, log, calls, raised]: the outbound calls made on the chat client   *)
(* in order, the log records written, the handler methods entered, and     *)
(* whether an exception leaves the method.                                 *)

\* update.message.reply_text(text); ok is FALSE when the call raises
Reply(text, ok) == [kind |-> "reply", chat_id |-> None, text |-> text, ok |-> ok]

\* bot.send_message(chat_id, text); ok is FALSE when the call raises
Send(chat_id, text, ok) ==
  [kind |-> "send", chat_id |-> Some(chat_id), text |-> text, ok |-> ok]

Result(o, l, c, r) == [out |-> o, log |-> l, calls |-> c, raised |-> r]

\* r1, and then r2 when r1 did not raise
Then(r1, r2) ==
  IF r1.raised THEN r1
  ELSE Result(r1.out \o r2.out, r1.log \o r2.log, r1.calls \o r2.calls,
              r2.raised)

\* the sender of every update of the model
User ==
  [id |-> <<"4", "2">>, first_name |-> <<"A", "n", "n">>, last_name |-> None,
   username |-> None]

\* the names _notify_owner can resolve: its parameters and the module's globals
NotifyOwnerScope ==
  {"self", "bot", "user", "message_text",
   "logging", "random", "Optional", "Update", "ContextTypes", "TelegramError",
   "Config", "logger", "BotHandlers"}

\* the names the payload expression of _notify_owner reads
NotifyOwnerReads == {"user", "message_text", "update"}

\* update.message.date, formatted
MessageDate ==
  <<"2", "0", "2", "5", "-", "0", "1", "-", "0", "1", " ", "0", "0", ":",
    "0", "0", ":", "0", "0", " ", "U", "T", "C">>

NoUsername == <<"N", "o", " ", "u", "s", "e", "r", "n", "a", "m", "e">>

\* the text of the notification: name, id, username, message, time
NotificationMessage(user, message_text, time) ==
  Strip(user.first_name \o <<" ">> \o Getenv(user.last_name, <<>>))
    \o <<"\n">> \o user.id
    \o <<"\n">> \o <<"@">> \o Getenv(user.username, NoUsername)
    \o <<"\n">> \o message_text
    \o <<"\n">> \o <<"\n">> \o time

_notify_owner(c, upd, user, message_text, sendFails) ==
  IF ~(NotifyOwnerReads \subseteq NotifyOwnerScope)
  THEN \* NameError, caught by "except Exception"
       Result(<<>>, <<"Unexpected error sending owner notification">>,
              <<"_notify_owner">>, FALSE)
  ELSE Result(<<Send(c.OWNER_ID[1],
                     NotificationMessage(user, message_text, MessageDate),
                     ~sendFails)>>,
              IF sendFails THEN <<"Failed to send owner notification">>
              ELSE <<"Owner notification sent">>,
              <<"_notify_owner">>, FALSE)

_handle_key_phrase(c, upd, user, message_text, f) ==
  IF f.reply
  THEN Result(<<Reply(c.KEY_RESPONSE, FALSE)>>,
              <<"Error handling key phrase">>, <<"_handle_key_phrase">>, TRUE)
  ELSE Then(
    Result(<<Reply(c.KEY_RESPONSE, TRUE)>>,
           <<"Key phrase detected, sent key response">>,
           <<"_handle_key_phrase">>, FALSE),
    IF Truthy(c.OWNER_ID)
    THEN IF ~upd.has_bot
         THEN \* update.get_bot() raises RuntimeError
              Result(<<>>, <<"Error handling key phrase">>, <<>>, TRUE)
         ELSE _notify_owner(c, upd, user, message_text, f.send)
    ELSE Result(<<>>, <<"Owner notification skipped: OWNER_ID not configured">>,
                <<>>, FALSE))

\* a variant of _handle_regular_message that ignores the pool
RegularMessageFixedAck(c, upd, user, message_text, f, pick) ==
  Result(<<Reply(En2, ~f.reply)>>,
         IF f.reply THEN <<"Error handling regular message">>
         ELSE <<"No other responses configured">>,
         <<"_handle_regular_message">>, f.reply)

\* pick is the index random.choice draws
_handle_regular_message(c, upd, user, message_text, f, pick) ==
  LET response == IF c.OTHER_RESPONSES # <<>> THEN c.OTHER_RESPONSES[pick]
                  ELSE En2
  IN  IF f.reply
      THEN Result(<<Reply(response, FALSE)>>,
                  <<"Error handling regular message">>,
                  <<"_handle_regular_message">>, TRUE)
      ELSE Result(<<Reply(response, TRUE)>>,
                  IF c.OTHER_RESPONSES # <<>> THEN <<"Sent random response">>
                  ELSE <<"No other responses configured">>,
                  <<"_handle_regular_message">>, FALSE)

\* a variant of _send_error_message without its try block
SendErrorMessageUncaught(upd, message, fails) ==
  IF upd.has_message
  THEN Result(<<Reply(message, ~fails)>>, <<>>, <<"_send_error_message">>,
              fails)
  ELSE Result(<<>>, <<>>, <<"_send_error_message">>, FALSE)

_send_error_message(upd, message, fails) ==
  IF upd.has_message
  THEN Result(<<Reply(message, ~fails)>>,
              IF fails THEN <<"Failed to send error message">> ELSE <<>>,
              <<"_send_error_message">>, FALSE)
  ELSE Result(<<>>, <<>>, <<"_send_error_message">>, FALSE)

\* not update.message or not update.message.text
NoText(upd) == ~upd.has_message \/ upd.text = None \/ upd.text[1] = <<>>

\* a variant of MessageText that does not trim
MessageTextUntrimmed(upd) == upd.text[1]

\* update.message.text.strip()
MessageText(upd) == Strip(upd.text[1])

\* key_phrase in normalized_message
KeyPhraseIn(c, message_text) ==
  Contains(get_effective_key_phrase(c), normalize_text(c, message_text))

\* the except clause of handle_message: log, then apologise
Except(r, upd, f) ==
  IF r.raised
  THEN LET e == _send_error_message(upd, ApologyText, f.apology)
       IN  Result(r.out \o e.out,
                  r.log \o <<"Error handling message">> \o e.log,
                  r.calls \o e.calls, e.raised)
  ELSE r

handle_message(c, upd, f, pick) ==
  IF NoText(upd)
  THEN Result(<<>>, <<"Received update without message text">>, <<>>, FALSE)
  ELSE IF MessageText(upd) = <<>>
  THEN Result(<<>>, <<"Received empty message">>, <<>>, FALSE)
  ELSE Except(
         Then(Result(<<>>, <<"Received message">>, <<>>, FALSE),
              IF KeyPhraseIn(c, MessageText(upd))
              THEN _handle_key_phrase(c, upd, User, MessageText(upd), f)
              ELSE _handle_regular_message(c, upd, User, MessageText(upd),
                                           f, pick)),
         upd, f)

----------------------------------------------------------------------------
(* main (main.py).                                                         *)

\* the exception classes the __main__ block catches
MainCatches == {"KeyboardInterrupt", "Exception"}

\* how main() ends at each final position
MainOutcome(p) ==
  CASE p = "returned" -> "return"
    [] p = "crashed" -> "Exception"
    [] p = "stopped" -> "KeyboardInterrupt"

\* the exit status of the interpreter after the __main__ block
ExitStatus(outcome) ==
  IF outcome = "return" \/ outcome \in MainCatches THEN 0 ELSE 1

NoApp == [built |-> FALSE, handlers |-> FALSE, polling |-> FALSE]

----------------------------------------------------------------------------
(* Inputs.                                                                 *)

Env(token, owner, phrase, response, others, cs) ==
  [BOT_TOKEN |-> token, OWNER_ID |-> owner, KEY_PHRASE |-> phrase,
   KEY_RESPONSE |-> response, OTHER_RESPONSES |-> others,
   CASE_SENSITIVE |-> cs]

\* environments of the handler specification
HandlerEnvs ==
  {Env(Some(<<"t">>), o, Some(p), Some(<<"r">>), x, cs) :
     o \in {None, Some(<<"0">>), Some(<<"7">>)},
     p \in {<<>>, <<"Q">>, <<" ", "q">>},
     x \in {None, Some(<<"a", ",", "b">>)},
     cs \in {None, Some(<<"T", "r", "u", "e">>)}}

\* environments of the start-up specification
MainEnvs ==
  {Env(t, o, Some(<<"q">>), None, None, None) :
     t \in {None, Some(<<"t">>)},
     o \in {None, Some(<<"x">>), Some(<<"0">>), Some(<<"7">>)}}

RawChars == {"a", ",", "\n", " ", "[", "]", "\""}

\* environments of the configuration specification
ConfigEnvs ==
  {Env(Some(<<"t">>), Some(<<"7">>), None, None, x, None) :
     x \in {None} \cup {Some(s) : s \in StringsUpTo(RawChars, MaxRawLen)}}

MsgChars == {"q", "Q", "x", " "}

NoUpdate == [has_message |-> FALSE, text |-> None, has_bot |-> TRUE]

\* the updates delivered to handle_message
Updates ==
  {NoUpdate}
  \cup {[has_message |-> TRUE, text |-> t, has_bot |-> b] :
          t \in {None} \cup {Some(s) : s \in StringsUpTo(MsgChars, MaxLen)},
          b \in BOOLEAN}

\* which calls on the chat client raise
Faults == [reply : BOOLEAN, apology : BOOLEAN, send : BOOLEAN]

----------------------------------------------------------------------------
(* Actions.                                                                *)

InitWith(envs) ==
  /\ env \in envs
  /\ config = None
  /\ pc = "start"
  /\ app = NoApp
  /\ update = NoUpdate
  /\ out = <<>>
  /\ log = <<>>
  /\ calls = <<>>
  /\ raised = FALSE
  /\ exitCode = None

Init == InitWith(HandlerEnvs)

InitMain == InitWith(MainEnvs)

InitConfig == InitWith(ConfigEnvs)

\* config = Config()
LoadConfig ==
  /\ pc = "start"
  /\ config' = Config(env)
  /\ pc' = "configured"
  /\ UNCHANGED <<env, app, update, out, log, calls, raised, exitCode>>

\* handlers = BotHandlers(config), constructed without main
BotHandlersInit ==
  /\ pc = "configured"
  /\ pc' = "ready"
  /\ UNCHANGED <<env, config, app, update, out, log, calls, raised, exitCode>>

\* main, from the checks on the configuration to the running bot
MainStart ==
  /\ pc = "configured"
  /\ \E startFails \in BOOLEAN :
       IF config.BOT_TOKEN = <<>>
       THEN /\ pc' = "returned"
            /\ log' = <<"BOT_TOKEN is required but not found">>
            /\ app' = app
       ELSE IF ~Truthy(config.OWNER_ID)
       THEN /\ pc' = "returned"
            /\ log' = <<"OWNER_ID is required but not found">>
            /\ app' = app
       ELSE IF startFails
       THEN /\ pc' = "crashed"
            /\ log' = <<"Failed to start bot">>
            /\ app' = [built |-> TRUE, handlers |-> TRUE, polling |-> FALSE]
       ELSE /\ pc' = "ready"
            /\ log' = <<"Bot is running">>
            /\ app' = [built |-> TRUE, handlers |-> TRUE, polling |-> TRUE]
  /\ UNCHANGED <<env, config, update, out, calls, raised, exitCode>>

\* one update handed to handle_message
HandleMessage ==
  /\ pc = "ready"
  /\ \E upd \in Updates, f \in Faults :
       \E pick \in 1..(IF config.OTHER_RESPONSES = <<>> THEN 1
                       ELSE Len(config.OTHER_RESPONSES)) :
         LET r == handle_message(config, upd, f, pick)
         IN  /\ update' = upd
             /\ out' = r.out
             /\ log' = r.log
             /\ calls' = r.calls
             /\ raised' = r.raised
  /\ pc' = "handled"
  /\ UNCHANGED <<env, config, app, exitCode>>

\* the handler has returned; the dispatcher waits for the next update
Return ==
  /\ pc = "handled"
  /\ pc' = "ready"
  /\ update' = NoUpdate
  /\ out' = <<>>
  /\ log' = <<>>
  /\ calls' = <<>>
  /\ raised' = FALSE
  /\ UNCHANGED <<env, config, app, exitCode>>

\* the stop signal: the finally block of main stops the application
Stop ==
  /\ pc = "ready"
  /\ pc' = "stopped"
  /\ app' = [app EXCEPT !.polling = FALSE]
  /\ log' = <<"Bot stopped">>
  /\ UNCHANGED <<env, config, update, out, calls, raised, exitCode>>

\* the __main__ block after asyncio.run(main()) has ended
ProcessExit ==
  /\ pc \in {"returned", "crashed", "stopped"}
  /\ pc' = "exited"
  /\ exitCode' = Some(ExitStatus(MainOutcome(pc)))
  /\ UNCHANGED <<env, config, app, update, out, log, calls, raised>>

\* the handlers, driven directly
Next == LoadConfig \/ BotHandlersInit \/ HandleMessage \/ Return

Spec == Init /\ [][Next]_vars

\* the program started by main
NextMain ==
  LoadConfig \/ MainStart \/ HandleMessage \/ Return \/ Stop \/ ProcessExit

SpecMain == InitMain /\ [][NextMain]_vars

\* configuration loading alone
NextConfig == LoadConfig

SpecConfig == InitConfig /\ [][NextConfig]_vars

----------------------------------------------------------------------------
(* Vocabulary of the properties.                                           *)

Handled == pc = "handled"

\* the raw text of the handled update
RawText == update.text[1]

\* the update carries text that is not empty after trimming
NonBlank == Handled /\ ~NoText(update) /\ Strip(RawText) # <<>>

EffectivePhrase == get_effective_key_phrase(config)

Called(name) == \E i \in 1..Len(calls) : calls[i] = name

Logged(message) == \E i \in 1..Len(log) : log[i] = message

Sends == {i \in 1..Len(out) : out[i].kind = "send"}

Apologies ==
  {i \in 1..Len(out) : out[i].kind = "reply" /\ out[i].text = ApologyText}

Range(s) == {s[i] : i \in 1..Len(s)}

\* the first reply of the handled update raised
ReplyFailed == Handled /\ out # <<>> /\ ~out[1].ok

\* the trigger reply of the handled update was sent
KeyReplySent == Handled /\ out # <<>> /\ out[1] = Reply(config.KEY_RESPONSE, TRUE)

----------------------------------------------------------------------------
(* C1: for every non-blank message, the notifier is invoked if and only   *)
(* if the normalized message contains the effective trigger phrase and an *)
(* owner address is configured; with the trigger present and no owner,    *)
(* once the trigger reply is sent, the notifier is not invoked and the     *)
(* skip is logged.                                                         *)
C1_NotifyIffTriggerAndOwner ==
  NonBlank =>
    LET trigger ==
          Contains(EffectivePhrase, normalize_text(config, Strip(RawText)))
    IN  /\ Called("_notify_owner") <=> (trigger /\ Truthy(config.OWNER_ID))
        /\ (trigger /\ ~Truthy(config.OWNER_ID) /\ KeyReplySent) =>
             /\ ~Called("_notify_owner")
             /\ Logged("Owner notification skipped: OWNER_ID not configured")

(* C2: on a trigger match with an owner configured and no failing call,   *)
(* the notifier calls send_message exactly once, to the owner address,     *)
(* with a text that contains the sender's id and the message text.         *)
C2_NotifierSendsOnce ==
  (/\ NonBlank
   /\ Contains(EffectivePhrase, normalize_text(config, Strip(RawText)))
   /\ Truthy(config.OWNER_ID)
   /\ update.has_bot
   /\ \A i \in 1..Len(out) : out[i].ok)
  => /\ Cardinality(Sends) = 1
     /\ \A i \in Sends :
          /\ out[i].chat_id = config.OWNER_ID
          /\ Contains(User.id, out[i].text)
          /\ Contains(Strip(RawText), out[i].text)

(* C3: whenever the normalized message text contains the effective        *)
(* trigger phrase, whatever surrounds the phrase and whatever whitespace   *)
(* the text or the phrase begins or ends with, handle_message takes the    *)
(* trigger path and the reply is the configured trigger response.          *)
C3_TriggerPathWhenContained ==
  (/\ Handled
   /\ ~NoText(update)
   /\ Contains(EffectivePhrase, normalize_text(config, RawText)))
  => /\ calls # <<>>
     /\ calls[1] = "_handle_key_phrase"
     /\ out[1].kind = "reply"
     /\ out[1].text = config.KEY_RESPONSE

(* C4: a non-blank message whose normalized text does not contain the     *)
(* effective trigger phrase takes the no-match path: no notification is    *)
(* attempted and the reply is a member of the fallback pool, or the fixed  *)
(* acknowledgement when the pool is empty.                                 *)
C4_NoMatchReplyFromPool ==
  (NonBlank /\ ~Contains(EffectivePhrase, normalize_text(config, RawText)))
  => /\ calls # <<>>
     /\ calls[1] = "_handle_regular_message"
     /\ ~Called("_handle_key_phrase")
     /\ ~Called("_notify_owner")
     /\ Sends = {}
     /\ out # <<>>
     /\ out[1].kind = "reply"
     /\ IF config.OTHER_RESPONSES # <<>>
        THEN out[1].text \in Range(config.OTHER_RESPONSES)
        ELSE out[1].text = En2
     /\ out[1].ok => Len(out) = 1

C4_Witness ==
  /\ NonBlank
  /\ ~Contains(EffectivePhrase, normalize_text(config, RawText))
  /\ Contains(<<"q">>, Lower(RawText))
  /\ out = <<Reply(<<"b">>, TRUE)>>

(* C5: an update whose text is missing, empty or blank after trimming     *)
(* produces no outbound call at all.                                       *)
C5_BlankIsNoOp ==
  (Handled /\ (NoText(update) \/ Strip(RawText) = <<>>))
  => /\ out = <<>>
     /\ calls = <<>>
     /\ ~raised

C5_Witness ==
  /\ Handled
  /\ update.has_message
  /\ update.text = Some(<<" ", " ">>)
  /\ out = <<>>

(* C6: when the trigger reply has been sent and the owner notification    *)
(* then fails, the failure is only logged: handle_message does not raise,  *)
(* nothing more is sent to the sender and the notification is not retried. *)
C6_NotifyFailureOnlyLogged ==
  (/\ NonBlank
   /\ KeyReplySent
   /\ Truthy(config.OWNER_ID)
   /\ ~\E i \in Sends : out[i].ok)
  => /\ ~raised
     /\ ~Called("_send_error_message")
     /\ Apologies = {}
     /\ Cardinality(Sends) <= 1
     /\ \A i \in 2..Len(out) : out[i].kind = "send"

(* C7: with no token the process does not start (no application, no       *)
(* handler, no polling) and ends with a failure status.                    *)
C7_NoTokenFailureExit ==
  (pc = "exited" /\ config.BOT_TOKEN = <<>>)
  => /\ app = NoApp
     /\ exitCode # Some(0)

(* C8: with a token and no (or an invalid) owner address the bot still    *)
(* starts and processes messages.                                          *)
C8_RunsWithoutOwner ==
  (/\ pc \notin {"start", "configured", "crashed"}
   /\ exitCode = None
   /\ config.BOT_TOKEN # <<>>
   /\ config.OWNER_ID = None)
  => /\ app.built
     /\ app.handlers
     /\ pc \in {"ready", "handled", "stopped"}

(* C9: a failure while replying is caught inside handle_message, which    *)
(* attempts exactly one apology and never raises, even when the apology    *)
(* fails too; handling an update changes nothing of the configuration      *)
(* that later updates are processed with.                                  *)
C9_FailureContained ==
  [][/\ (pc = "ready" /\ ReplyFailed') =>
          /\ ~raised'
          /\ Cardinality(Apologies') = 1
          /\ Called("_send_error_message")'
          /\ config' = config
     /\ (pc = "handled" /\ ReplyFailed) =>
          /\ pc' = "ready"
          /\ config' = config
          /\ out' = <<>>]_vars

C9_Witness ==
  /\ ReplyFailed
  /\ Len(out) = 2
  /\ out[2] = Reply(ApologyText, FALSE)
  /\ ~raised

(* C10: the pool of a raw fallback-reply value is the result of the first *)
(* of (1) JSON array of strings, (2) split on comma, (3) split on newline, *)
(* (4) the whole value, that is not empty; a built-in pool is used only    *)
(* when the raw value is empty.                                            *)
RawResponses == Getenv(env.OTHER_RESPONSES, <<>>)

IsStrArray(raw) ==
  LET j == JsonLoads(raw) IN j.ok /\ j.isList /\ j.allStr

CommaParts(raw) ==
  IF HasChar(",", raw) THEN StripNonEmpty(Split(raw, ",")) ELSE <<>>

LineParts(raw) ==
  IF HasChar("\n", raw) THEN StripNonEmpty(Split(raw, "\n")) ELSE <<>>

ClaimedPool(raw) ==
  IF raw = <<>> THEN InitialResponses
  ELSE IF IsStrArray(raw) /\ JsonLoads(raw).items # <<>>
  THEN JsonLoads(raw).items
  ELSE IF CommaParts(raw) # <<>> THEN CommaParts(raw)
  ELSE IF LineParts(raw) # <<>> THEN LineParts(raw)
  ELSE <<Strip(raw)>>

C10_FirstNonEmptyStep ==
  pc = "configured" => config.OTHER_RESPONSES = ClaimedPool(RawResponses)

(* C10, amended: a JSON array of strings is taken even when it is empty,  *)
(* and validation then replaces the empty pool by the pool of              *)
(* _get_default_responses; a value that is blank after trimming gets that  *)
(* pool too; the pool is never empty.                                      *)
AmendedPool(raw) ==
  IF raw = <<>> THEN InitialResponses
  ELSE IF IsStrArray(raw)
  THEN (IF JsonLoads(raw).items # <<>> THEN JsonLoads(raw).items
        ELSE _get_default_responses)
  ELSE IF CommaParts(raw) # <<>> THEN CommaParts(raw)
  ELSE IF LineParts(raw) # <<>> THEN LineParts(raw)
  ELSE IF Strip(raw) # <<>> THEN <<Strip(raw)>>
  ELSE _get_default_responses

C10_PoolRule ==
  pc = "configured" =>
    /\ config.OTHER_RESPONSES = AmendedPool(RawResponses)
    /\ config.OTHER_RESPONSES # <<>>
    /\ config.OTHER_RESPONSES = InitialResponses <=> RawResponses = <<>>
    /\ config.OTHER_RESPONSES = _get_default_responses <=>
         /\ RawResponses # <<>>
         /\ \/ Strip(RawResponses) = <<>>
            \/ IsStrArray(RawResponses) /\ JsonLoads(RawResponses).items = <<>>

C10_Witness ==
  /\ pc = "configured"
  /\ RawResponses = <<"[", "]">>
  /\ config.OTHER_RESPONSES = _get_default_responses

====
